---- MODULE Spec2Model ----
(***************************************************************************)
(* Model of check_cisco_stack.py: a Nagios plugin that polls a Cisco       *)
(* switch stack over SNMP (member-number walk, member-state walk, ring     *)
(* GET), reduces the answers to a severity and a message, prints one       *)
(* status line and exits with the severity as the process exit code.       *)
(*                                                                         *)
(* Strings are Python strings, a dict is a sequence of key/value entries   *)
(* in insertion order, a record whose field is absent is a dict without    *)
(* that key.  An exception nothing catches ends the process with a         *)
(* traceback and exit status 1 (CPython's behaviour).  Debug logging has   *)
(* no effect on control flow or standard output and is left out.           *)
(***************************************************************************)
EXTENDS Integers, Sequences, FiniteSets, TLC

VARIABLES
    pc,               \* position of the run
    argv,             \* the command line, as the options it holds
    snmp,             \* the SNMP sessions opened and queries issued, in order
    stack_table_oid,  \* get_stack_info: result of the member-number walk
    stack_status_oid, \* get_stack_info: result of the member-state walk
    stack,            \* member_table / evaluate_results' stack argument
    ring,             \* stack_ring_status / evaluate_results' ring argument
    it,               \* evaluate_results: position of the member loop
    result,           \* evaluate_results: running severity
    message,          \* evaluate_results: list of fragments, then the joined string
    stdout,           \* lines printed to standard output
    stderr,           \* what argparse wrote to standard error
    exitcode,         \* process exit status, NotExited while running
    fault,            \* the exception that ended the run, "none" otherwise
    evaluated,        \* evaluate_results has been entered
    printed_args,     \* main's print(args) has run
    x,                \* stack_state: argument
    ret               \* stack_state: returned name

vars == <<pc, argv, snmp, stack_table_oid, stack_status_oid, stack, ring, it,
          result, message, stdout, stderr, exitcode, fault, evaluated,
          printed_args, x, ret>>

---------------------------------------------------------------------------
(* Bounds of the model *)

\* most entries one SNMP walk returns, and most members of a stack
MaxMembers == 2

\* stack_state is applied to the decimal strings of 0..MaxCode
MaxCode == 60

---------------------------------------------------------------------------
(* Exit codes and status messages *)

OK == 0
WARNING == 1
CRITICAL == 2
UNKNOWN == 3

program_name == "Cisco Stack"

NotExited == 0 - 1

\* exit status of a run ended by an uncaught exception
TracebackExit == 1

\* exit status of argparse's error()
ArgparseErrorExit == 2

exit_status(c) ==
    CASE c = 0 -> "OK"
      [] c = 1 -> "WARNING"
      [] c = 2 -> "CRITICAL"
      [] c = 3 -> "UNKNOWN"
      [] OTHER -> "UNKNOWN"

\* plugin_exit without the sys.exit: the line is printed and control returns
plugin_exit_returns(c, msg) ==
    [line |-> program_name \o " " \o exit_status(c) \o " - " \o msg,
     code |-> c,
     exits |-> FALSE]

\* plugin_exit(exitcode, message): the line it prints, the status it exits with,
\* and whether control leaves the program there (sys.exit raises SystemExit,
\* which nothing in the program catches)
plugin_exit(c, msg) ==
    [line |-> program_name \o " " \o exit_status(c) \o " - " \o msg,
     code |-> c,
     exits |-> TRUE]

\* the text usage() prints
usage_text == "-h --help -v --version -H --host <ip_address> -c --community <string> -d --debug"

\* "{0} plugin version {1}".format(__program_name__, __version__)
version_line == program_name \o " plugin version " \o "1.1"

---------------------------------------------------------------------------
(* Strings *)

Digit == <<"0", "1", "2", "3", "4", "5", "6", "7", "8", "9">>

\* the decimal string of a natural number, as the SNMP library renders an INTEGER
RECURSIVE DecStr(_)
DecStr(n) == IF n < 10 THEN Digit[n + 1]
             ELSE DecStr(n \div 10) \o Digit[(n % 10) + 1]

\* ''.join(list)
RECURSIVE join(_)
join(l) == IF l = <<>> THEN "" ELSE Head(l) \o join(Tail(l))

\* "{0}: {1}, ".format(number, status)
member_fragment(number, status) == number \o ": " \o status \o ", "

---------------------------------------------------------------------------
(* Python dicts: entries [key, val] in insertion order *)

DictKeys(d) == {d[i].key : i \in 1..Len(d)}

DictHas(d, k) == k \in DictKeys(d)

DictGet(d, k) == d[CHOOSE i \in 1..Len(d) : d[i].key = k].val

\* d[k] = v: an existing key keeps its place
DictSet(d, k, v) ==
    IF DictHas(d, k)
    THEN [i \in 1..Len(d) |-> IF d[i].key = k THEN [key |-> k, val |-> v] ELSE d[i]]
    ELSE Append(d, [key |-> k, val |-> v])

HasField(r, f) == f \in DOMAIN r

\* r[f] = v on a dict r
SetField(r, f, v) == [g \in DOMAIN r \cup {f} |-> IF g = f THEN v ELSE r[g]]

---------------------------------------------------------------------------
(* stack_state *)

\* the table with its last entry left out
stack_state_short(c) ==
    CASE c = "1" -> "waiting"
      [] c = "2" -> "progressing"
      [] c = "3" -> "added"
      [] c = "4" -> "ready"
      [] c = "5" -> "sdmMismatch"
      [] c = "6" -> "verMismatch"
      [] c = "7" -> "featureMismatch"
      [] c = "8" -> "newMasterInit"
      [] c = "9" -> "provisioned"
      [] c = "10" -> "invalid"
      [] OTHER -> "UNKNOWN"

stack_state(c) ==
    CASE c = "1" -> "waiting"
      [] c = "2" -> "progressing"
      [] c = "3" -> "added"
      [] c = "4" -> "ready"
      [] c = "5" -> "sdmMismatch"
      [] c = "6" -> "verMismatch"
      [] c = "7" -> "featureMismatch"
      [] c = "8" -> "newMasterInit"
      [] c = "9" -> "provisioned"
      [] c = "10" -> "invalid"
      [] c = "11" -> "removed"
      [] OTHER -> "UNKNOWN"

---------------------------------------------------------------------------
(* Values the device can answer with *)

\* the table index of the i-th stack member: the last arc of its OIDs
IndexOf(i) == DecStr(i) \o "001"

Indexes == {IndexOf(i) : i \in 1..MaxMembers}

NumberValues == {"1", "2"}

StatusValues == {"4", "9", "12"}

RingValues == {"1", "2", "0"}

\* a complete member_table record
Member(idx, n, c) ==
    [index |-> idx, number |-> n, status_num |-> c, status |-> stack_state(c)]

MemberEntries ==
    {[key |-> idx, val |-> Member(idx, n, c)] :
        idx \in Indexes, n \in NumberValues, c \in StatusValues}

\* every mapping of at most MaxMembers complete records under distinct keys
MemberMappings ==
    {s \in UNION {[1..n -> MemberEntries] : n \in 0..MaxMembers} :
        \A i, j \in 1..Len(s) : i < j => s[i].key # s[j].key}

\* the decimal codes 0..MaxCode and some values that are no decimal code
StateInputs == {DecStr(n) : n \in 0..MaxCode} \cup {"", "abc", "04", "4 ", "ready"}

---------------------------------------------------------------------------
(* How a run ends *)

\* an exception nothing catches: traceback, exit status 1
Crash(exc) ==
    /\ pc' = "exited"
    /\ fault' = exc
    /\ exitcode' = TracebackExit

\* sys.exit(code)
SysExit(code) ==
    /\ pc' = "exited"
    /\ fault' = fault
    /\ exitcode' = code

---------------------------------------------------------------------------
(* evaluate_results *)

\* the result follows the last member instead of the worst one
member_result_last(res, member) ==
    IF member.status_num # "4" THEN CRITICAL ELSE OK

\* line 376-377: a member that is not ready makes the result CRITICAL
member_result(res, member) ==
    IF member.status_num # "4" THEN CRITICAL ELSE res

\* only the value '0' read as non-redundant
ring_fragment_zero(r) ==
    IF r = "0" THEN "Stack Ring is non-redundant" ELSE "Stack Ring is redundant"

\* line 379-382: the ring's fragment of the message
ring_fragment(r) ==
    IF r = "1" THEN "Stack Ring is redundant" ELSE "Stack Ring is non-redundant"

\* a non-redundant ring escalates as a member fault does
ring_result_critical(res, r) ==
    IF r = "1" THEN res ELSE CRITICAL

\* line 379-384: a non-redundant ring makes an OK result WARNING
ring_result(res, r) ==
    IF r = "1" THEN res
    ELSE IF res = OK THEN WARNING ELSE res

EvalStart ==
    /\ pc = "eval_start"
    /\ message' = <<"Members: ">>
    /\ result' = OK
    /\ it' = 1
    /\ evaluated' = TRUE
    /\ pc' = "eval_loop"
    /\ UNCHANGED <<argv, snmp, stack_table_oid, stack_status_oid, stack, ring,
                   stdout, stderr, exitcode, fault, printed_args, x, ret>>

\* one iteration of the loop over stack.items()
EvalMember ==
    /\ pc = "eval_loop"
    /\ it <= Len(stack)
    /\ LET member == stack[it].val IN
        IF HasField(member, "number") /\ HasField(member, "status")
              /\ HasField(member, "status_num")
        THEN /\ message' = Append(message,
                               member_fragment(member.number, member.status))
             /\ result' = member_result(result, member)
             /\ it' = it + 1
             /\ UNCHANGED <<pc, exitcode, fault>>
        ELSE /\ Crash("KeyError")
             /\ UNCHANGED <<message, result, it>>
    /\ UNCHANGED <<argv, snmp, stack_table_oid, stack_status_oid, stack, ring,
                   stdout, stderr, evaluated, printed_args, x, ret>>

\* the ring step, the join and the return
EvalRing ==
    /\ pc = "eval_loop"
    /\ it > Len(stack)
    /\ message' = join(Append(message, ring_fragment(ring)))
    /\ result' = ring_result(result, ring)
    /\ pc' = "eval_done"
    /\ UNCHANGED <<argv, snmp, stack_table_oid, stack_status_oid, stack, ring, it,
                   stdout, stderr, exitcode, fault, evaluated, printed_args, x, ret>>

---------------------------------------------------------------------------
(* The SNMP library, as the program sees it *)

stack_table_base ==
    <<"1", "3", "6", "1", "4", "1", "9", "9", "500", "1", "2", "1", "1", "1">>

stack_status_base ==
    <<"1", "3", "6", "1", "4", "1", "9", "9", "500", "1", "2", "1", "1", "6">>

ring_status_oid_name ==
    <<"1", "3", "6", "1", "4", "1", "9", "9", "500", "1", "1", "3", "0">>

\* strictly increasing choices of n of the MaxMembers table rows
Rows(n) == {f \in [1..n -> 1..MaxMembers] : \A i, j \in 1..n : i < j => f[i] < f[j]}

\* the lists a walk under base can return: rows in OID order, values from Values
Walks(base, Values) ==
    UNION {{[k \in 1..n |-> [oid |-> Append(base, IndexOf(f[k])), value |-> v[k]]] :
               f \in Rows(n), v \in [1..n -> Values]} : n \in 0..MaxMembers}

\* a walk returns a list, or the library raises
WalkOutcomes(base, Values) ==
    {[kind |-> "raise", vars |-> <<>>]}
        \cup {[kind |-> "list", vars |-> w] : w \in Walks(base, Values)}

\* a GET returns a variable, nothing, or the library raises
GetOutcomes(Values) ==
    {[kind |-> "raise", value |-> ""], [kind |-> "None", value |-> ""]}
        \cup {[kind |-> "SNMPVariable", value |-> v] : v \in Values}

\* "if not <walk result>": an empty list is falsy
walk_failed(walk) == Len(walk) = 0

\* the ring result used without the check
get_failed_unchecked(r) == FALSE

\* "if not ring_status_oid": None is falsy
get_failed(r) == r.kind = "None"

\* member.oid.rsplit('.').pop()
oid_index(oid) == oid[Len(oid)]

\* a log entry: a session opened, or a query with how it ended
Opened == [op |-> "Session", oid |-> <<>>, outcome |-> "opened"]

Query(op, oid, outcome) == [op |-> op, oid |-> oid, outcome |-> outcome]

WalkOutcomeName(r) ==
    IF r.kind = "raise" THEN "raise" ELSE IF Len(r.vars) = 0 THEN "empty" ELSE "value"

GetOutcomeName(r) ==
    IF r.kind = "raise" THEN "raise" ELSE IF r.kind = "None" THEN "empty" ELSE "value"

---------------------------------------------------------------------------
(* get_stack_info *)

\* lines 262-265: one record per entry of the member-number walk
RECURSIVE number_loop(_, _)
number_loop(walk, table) ==
    IF walk = <<>> THEN table
    ELSE LET member == Head(walk)
             a == [number |-> member.value, index |-> oid_index(member.oid)]
         IN number_loop(Tail(walk), DictSet(table, a.index, a))

\* line 273: member_table[index]; a missing key raises KeyError
status_lookup(table, index) == DictHas(table, index)

\* lines 270-274: the status fields of each entry of the member-state walk
RECURSIVE status_loop(_, _)
status_loop(walk, table) ==
    IF walk = <<>> THEN [raised |-> "none", table |-> table]
    ELSE LET member == Head(walk)
             index == oid_index(member.oid)
         IN IF ~status_lookup(table, index)
            THEN [raised |-> "KeyError", table |-> table]
            ELSE LET r1 == SetField(DictGet(table, index), "status_num", member.value)
                     r2 == SetField(r1, "status", stack_state(member.value))
                 IN status_loop(Tail(walk), DictSet(table, index, r2))

\* lines 256-265
WalkNumber ==
    /\ pc = "get_stack_info"
    /\ \E r \in WalkOutcomes(stack_table_base, NumberValues) :
        LET e == plugin_exit(CRITICAL, "Unable to retrieve SNMP stack table")
            failed == walk_failed(r.vars)
        IN /\ snmp' = snmp \o <<Opened, Query("bulkwalk", stack_table_base,
                                                WalkOutcomeName(r))>>
           /\ IF r.kind = "raise"
              THEN /\ Crash("EasySNMPError")
                   /\ UNCHANGED <<stack_table_oid, stack, stdout>>
              ELSE /\ stack_table_oid' = r.vars
                   /\ stdout' = IF failed THEN Append(stdout, e.line) ELSE stdout
                   /\ IF failed /\ e.exits
                      THEN SysExit(e.code) /\ UNCHANGED stack
                      ELSE /\ stack' = number_loop(r.vars, <<>>)
                           /\ pc' = "walk_status"
                           /\ UNCHANGED <<exitcode, fault>>
    /\ UNCHANGED <<argv, stack_status_oid, ring, it, result, message, stderr,
                   evaluated, printed_args, x, ret>>

\* lines 266-276
WalkStatus ==
    /\ pc = "walk_status"
    /\ \E r \in WalkOutcomes(stack_status_base, StatusValues) :
        LET e == plugin_exit(CRITICAL, "Unable to retrieve SNMP stack status")
            failed == walk_failed(r.vars)
            done == status_loop(r.vars, stack)
        IN /\ snmp' = Append(snmp, Query("bulkwalk", stack_status_base,
                                         WalkOutcomeName(r)))
           /\ IF r.kind = "raise"
              THEN /\ Crash("EasySNMPError")
                   /\ UNCHANGED <<stack_status_oid, stack, stdout>>
              ELSE /\ stack_status_oid' = r.vars
                   /\ stdout' = IF failed THEN Append(stdout, e.line) ELSE stdout
                   /\ IF failed /\ e.exits
                      THEN SysExit(e.code) /\ UNCHANGED stack
                      ELSE IF done.raised # "none"
                      THEN Crash(done.raised) /\ UNCHANGED stack
                      ELSE /\ stack' = done.table
                           /\ pc' = "get_ring_status"
                           /\ UNCHANGED <<exitcode, fault>>
    /\ UNCHANGED <<argv, stack_table_oid, ring, it, result, message, stderr,
                   evaluated, printed_args, x, ret>>

---------------------------------------------------------------------------
(* get_ring_status *)

\* lines 349-357; a result of None that passed the check has no .value
RingGet ==
    /\ pc = "get_ring_status"
    /\ \E r \in GetOutcomes(RingValues) :
        LET e == plugin_exit(CRITICAL, "Unable to retrieve SNMP ring status")
            failed == get_failed(r)
        IN /\ snmp' = snmp \o <<Opened, Query("get", ring_status_oid_name,
                                                GetOutcomeName(r))>>
           /\ IF r.kind = "raise"
              THEN /\ Crash("EasySNMPError")
                   /\ UNCHANGED <<ring, stdout>>
              ELSE /\ stdout' = IF failed THEN Append(stdout, e.line) ELSE stdout
                   /\ IF failed /\ e.exits
                      THEN SysExit(e.code) /\ UNCHANGED ring
                      ELSE IF r.kind = "None"
                      THEN Crash("AttributeError") /\ UNCHANGED ring
                      ELSE /\ ring' = r.value
                           /\ pc' = "eval_start"
                           /\ UNCHANGED <<exitcode, fault>>
    /\ UNCHANGED <<argv, stack_table_oid, stack_status_oid, stack, it, result,
                   message, stderr, evaluated, printed_args, x, ret>>

---------------------------------------------------------------------------
(* main *)

\* line 438, parser.parse_args() with the parser of lines 120-169: -h prints the
\* help and exits 0; a missing required -H/--host is an argparse error, which
\* prints the usage and the error to standard error and exits 2
ArgparseParse ==
    /\ pc = "main"
    /\ IF argv.help
       THEN /\ stdout' = Append(stdout, "argparse help")
            /\ SysExit(0)
            /\ UNCHANGED stderr
       ELSE IF ~argv.host
       THEN /\ stderr' = stderr \o <<"argparse usage",
                     "error: the following arguments are required: -H/--host">>
            /\ SysExit(ArgparseErrorExit)
            /\ UNCHANGED stdout
       ELSE /\ pc' = "parse_args"
            /\ UNCHANGED <<stdout, stderr, exitcode, fault>>
    /\ UNCHANGED <<argv, snmp, stack_table_oid, stack_status_oid, stack, ring, it,
                   result, message, evaluated, printed_args, x, ret>>

\* line 439, parse_args(): getopt over the same command line
GetoptParse ==
    /\ pc = "parse_args"
    /\ IF argv.version
       THEN /\ stdout' = Append(stdout, version_line)
            /\ SysExit(0)
       ELSE IF argv.help
       THEN /\ stdout' = Append(stdout, usage_text)
            /\ SysExit(UNKNOWN)
       ELSE IF ~argv.host
       THEN /\ stdout' = stdout \o <<"Requires host to check", usage_text>>
            /\ SysExit(UNKNOWN)
       ELSE /\ pc' = IF argv.sub = "part" THEN "part" ELSE "get_stack_info"
            /\ UNCHANGED <<stdout, exitcode, fault>>
    /\ UNCHANGED <<argv, snmp, stack_table_oid, stack_status_oid, stack, ring, it,
                   result, message, stderr, evaluated, printed_args, x, ret>>

\* lines 440-445 and 450 on the 'part' path: the helper prints its arguments (the
\* lists themselves are not modelled), fails on a missing -tS/-tE list, and
\* otherwise main reaches evaluate_results(stack, ring) with both names unassigned
PartStatus ==
    /\ pc = "part"
    /\ IF argv.test /\ ~argv.tdata
       THEN /\ stdout' = stdout \o <<"switchnumbers", "expectedstate">>
            /\ Crash("TypeError")
       ELSE /\ stdout' = IF argv.test
                         THEN stdout \o <<"switchnumbers", "expectedstate",
                                          "tswitchnumbers", "texpectedstate">>
                         ELSE stdout
            /\ Crash("UnboundLocalError")
    /\ UNCHANGED <<argv, snmp, stack_table_oid, stack_status_oid, stack, ring, it,
                   result, message, stderr, evaluated, printed_args, x, ret>>

\* lines 451-452: plugin_exit(result, message), then print(args)
MainExit ==
    /\ pc = "eval_done"
    /\ LET e == plugin_exit(result, message) IN
        IF e.exits
        THEN /\ stdout' = Append(stdout, e.line)
             /\ SysExit(e.code)
             /\ UNCHANGED printed_args
        ELSE /\ stdout' = stdout \o <<e.line, "Namespace">>
             /\ printed_args' = TRUE
             /\ SysExit(0)
    /\ UNCHANGED <<argv, snmp, stack_table_oid, stack_status_oid, stack, ring, it,
                   result, message, stderr, evaluated, x, ret>>

---------------------------------------------------------------------------
(* stack_state as called *)

StackStateCall ==
    /\ pc = "state_call"
    /\ ret' = stack_state(x)
    /\ pc' = "state_ret"
    /\ UNCHANGED <<argv, snmp, stack_table_oid, stack_status_oid, stack, ring, it,
                   result, message, stdout, stderr, exitcode, fault, evaluated,
                   printed_args, x>>

---------------------------------------------------------------------------
(* Specifications *)

NoArgv == [host |-> FALSE, help |-> FALSE, version |-> FALSE,
           sub |-> "none", test |-> FALSE, tdata |-> FALSE]

\* nothing has run: locals are unassigned (placeholders), nothing was printed
Fresh ==
    /\ snmp = <<>>
    /\ stack_table_oid = <<>>
    /\ stack_status_oid = <<>>
    /\ it = 0
    /\ result = OK
    /\ message = <<>>
    /\ stdout = <<>>
    /\ stderr = <<>>
    /\ exitcode = NotExited
    /\ fault = "none"
    /\ evaluated = FALSE
    /\ printed_args = FALSE
    /\ ret = ""

\* the command lines: the options given, and the 'part' subcommand with its flags
Argvs ==
    {a \in [host : BOOLEAN, help : BOOLEAN, version : BOOLEAN,
            sub : {"none", "part"}, test : BOOLEAN, tdata : BOOLEAN] :
        /\ a.tdata => a.test
        /\ a.test => a.sub = "part"}

Init ==
    /\ pc = "main"
    /\ argv \in Argvs
    /\ stack = <<>>
    /\ ring = ""
    /\ x = ""
    /\ Fresh

Next ==
    \/ ArgparseParse
    \/ GetoptParse
    \/ PartStatus
    \/ WalkNumber
    \/ WalkStatus
    \/ RingGet
    \/ EvalStart
    \/ EvalMember
    \/ EvalRing
    \/ MainExit

Spec == Init /\ [][Next]_vars

\* evaluate_results(stack, ring) on every member mapping and ring value
InitEval ==
    /\ pc = "eval_start"
    /\ argv = NoArgv
    /\ stack \in MemberMappings
    /\ ring \in RingValues
    /\ x = ""
    /\ Fresh

NextEval == EvalStart \/ EvalMember \/ EvalRing

SpecEval == InitEval /\ [][NextEval]_vars

\* stack_state(x) on every input value
InitState ==
    /\ pc = "state_call"
    /\ argv = NoArgv
    /\ stack = <<>>
    /\ ring = ""
    /\ Fresh
    /\ x \in StateInputs

NextState == StackStateCall

SpecState == InitState /\ [][NextState]_vars

---------------------------------------------------------------------------
(* Properties of evaluate_results, checked under SpecEval *)

NotReady(i) == stack[i].val.status_num # "4"

\* C1: as soon as the scan has passed a member whose status_num is not '4' the
\* running severity is CRITICAL, and it is CRITICAL in every later state of the
\* call: through the remaining members, through the ring step (redundant or
\* not) and in the returned value.
C1_NotReadyMemberIsCritical ==
    /\ pc = "eval_loop" =>
          ((\E i \in 1..(it - 1) : NotReady(i)) => result = CRITICAL)
    /\ pc = "eval_done" =>
          ((\E i \in 1..Len(stack) : NotReady(i)) => result = CRITICAL)

\* one member not ready, a ready member scanned after it, a redundant ring
C1_Witness ==
    /\ pc = "eval_done"
    /\ Len(stack) = 2
    /\ NotReady(1)
    /\ ~NotReady(2)
    /\ ring = "1"
    /\ result = CRITICAL

\* C2: for a non-empty mapping whose members all have status_num '4' the
\* returned severity is OK when ring is '1' and WARNING for every other ring.
C2_AllReadyFollowsRing ==
    (pc = "eval_done" /\ Len(stack) > 0 /\ \A i \in 1..Len(stack) : ~NotReady(i))
        => result = (IF ring = "1" THEN OK ELSE WARNING)

\* two ready members and a ring value that is neither '1' nor '2'
C2_Witness ==
    /\ pc = "eval_done"
    /\ Len(stack) = 2
    /\ \A i \in 1..Len(stack) : ~NotReady(i)
    /\ ring = "0"
    /\ result = WARNING

\* "<number>: <statusName>, " for the first n members, in iteration order
RECURSIVE MemberText(_)
MemberText(n) ==
    IF n = 0 THEN ""
    ELSE MemberText(n - 1) \o stack[n].val.number \o ": "
             \o stack[n].val.status \o ", "

\* C3: the returned message is "Members: ", then one fragment
\* "<number>: <statusName>, " per member, each once and in iteration order,
\* then one ring fragment: "Stack Ring is redundant" exactly when ring is '1',
\* "Stack Ring is non-redundant" otherwise.
C3_MessageText ==
    pc = "eval_done" =>
        /\ ring = "1" =>
              message = "Members: " \o MemberText(Len(stack))
                            \o "Stack Ring is redundant"
        /\ ring # "1" =>
              message = "Members: " \o MemberText(Len(stack))
                            \o "Stack Ring is non-redundant"

\* member 2001 listed before member 1001, ring value '2'
C3_Witness ==
    /\ pc = "eval_done"
    /\ Len(stack) = 2
    /\ stack[1].key = "2001"
    /\ ring = "2"
    /\ message = "Members: 2: provisioned, 1: ready, Stack Ring is non-redundant"

---------------------------------------------------------------------------
(* Properties of stack_state, checked under SpecState *)

StatusNames ==
    <<"waiting", "progressing", "added", "ready", "sdmMismatch", "verMismatch",
      "featureMismatch", "newMasterInit", "provisioned", "invalid", "removed">>

\* C4: stack_state returns the table's name for the codes 1..11 (as the device's
\* decimal strings) and "UNKNOWN" for every other value, numeric or not; the
\* call always returns and raises nothing.
C4_StackStateTable ==
    /\ pc = "state_ret" =>
          /\ \A n \in 1..11 : x = DecStr(n) => ret = StatusNames[n]
          /\ (\A n \in 1..11 : x # DecStr(n)) => ret = "UNKNOWN"
          /\ fault = "none"
    /\ pc = "state_call" => ENABLED StackStateCall

\* the last code of the table
C4_Witness ==
    /\ pc = "state_ret"
    /\ x = "11"
    /\ ret = "removed"

---------------------------------------------------------------------------
(* Properties of a run of main, checked under Spec *)

\* the message plugin_exit is given when the query of this OID returns nothing
FailureMessage(oid) ==
    IF oid = stack_table_base THEN "Unable to retrieve SNMP stack table"
    ELSE IF oid = stack_status_base THEN "Unable to retrieve SNMP stack status"
    ELSE "Unable to retrieve SNMP ring status"

\* C5: when one of the three queries returns an empty or no-value result, the
\* run has ended with exit code 2 and the one line "Cisco Stack CRITICAL -
\* Unable to retrieve SNMP ..." naming that query, no later query or session
\* follows it, and evaluate_results was never entered.
C5_EmptyResultExitsCritical ==
    \A i \in 1..Len(snmp) :
        snmp[i].outcome = "empty" =>
            /\ i = Len(snmp)
            /\ pc = "exited"
            /\ exitcode = 2
            /\ fault = "none"
            /\ stdout = <<"Cisco Stack CRITICAL - " \o FailureMessage(snmp[i].oid)>>
            /\ ~evaluated

\* both walks answered and the ring GET returned nothing
C5_Witness ==
    /\ Len(snmp) = 5
    /\ snmp[5].op = "get"
    /\ snmp[5].outcome = "empty"
    /\ exitcode = 2
    /\ stdout = <<"Cisco Stack CRITICAL - Unable to retrieve SNMP ring status">>

\* C6 (as claimed): a run started without --host/-H ends with exit code 3
\* (UNKNOWN) after printing a usage message, and opens no SNMP session and
\* issues no query.  Stated for command lines that do not ask for the help.
C6_NoHostExitsUnknown ==
    (pc = "exited" /\ ~argv.host /\ ~argv.help) =>
        /\ exitcode = UNKNOWN
        /\ (\E i \in 1..Len(stdout) : stdout[i] = usage_text)
               \/ (\E i \in 1..Len(stderr) : stderr[i] = "argparse usage")
        /\ snmp = <<>>

SeverityName == <<"WARNING", "CRITICAL", "UNKNOWN">>

NameOf(sev) == IF sev = 0 THEN "OK" ELSE SeverityName[sev]

\* the run ended in plugin_exit: past the argument parsing, with no exception
ReachedPluginExit == pc = "exited" /\ fault = "none" /\ snmp # <<>>

\* C7: a run that reaches plugin_exit(severity, message) has printed the line
\* "Cisco Stack <SEVERITY-NAME> - <message>" last, with the name of that
\* severity, and has exited with the severity as its exit code; nothing runs
\* afterwards: no step of the program is enabled and print(args) never ran.
C7_PluginExitIsLast ==
    /\ printed_args = FALSE
    /\ pc = "exited" => ~ENABLED Next
    /\ ReachedPluginExit =>
          /\ exitcode \in 0..3
          /\ evaluated =>
                /\ exitcode = result
                /\ stdout = <<"Cisco Stack " \o NameOf(result) \o " - " \o message>>
          /\ ~evaluated =>
                /\ exitcode = 2
                /\ stdout = <<"Cisco Stack CRITICAL - "
                                \o FailureMessage(snmp[Len(snmp)].oid)>>

\* the whole pipeline ran and ended in WARNING
C7_Witness ==
    /\ pc = "exited"
    /\ evaluated
    /\ exitcode = 1
    /\ stdout = <<"Cisco Stack WARNING - Members: 1: ready, Stack Ring is non-redundant">>

\* C8 (as claimed): when an SNMP call raises, the run ends with exit code 2 or
\* 3 and a plugin status line on standard output.
C8_TransportFailureReported ==
    \A i \in 1..Len(snmp) :
        snmp[i].outcome = "raise" =>
            /\ pc = "exited"
            /\ exitcode \in {CRITICAL, UNKNOWN}
            /\ stdout # <<>>

WalkIndexes(walk) == {oid_index(walk[i].oid) : i \in 1..Len(walk)}

\* C9 (as claimed): when the member-state walk holds an index the member-number
\* walk did not return, get_stack_info either ends the run as a collection
\* failure (CRITICAL plugin exit) or has a record for that index; no KeyError
\* leaves it.
C9_NoUndefinedKeyFault ==
    \A idx \in WalkIndexes(stack_status_oid) \ WalkIndexes(stack_table_oid) :
        /\ fault # "KeyError"
        /\ \/ pc = "exited" /\ exitcode = CRITICAL /\ stdout # <<>>
           \/ DictHas(stack, idx)

CompleteRecord(e) ==
    /\ DOMAIN e.val = {"index", "number", "status_num", "status"}
    /\ e.val.index = e.key
    /\ e.val.status = stack_state(e.val.status_num)

\* C10 (as claimed): every record of the table get_stack_info returns has its
\* four fields (index equal to the key, number, status_num, status =
\* stack_state(status_num)), and evaluate_results on it never reads a missing
\* field.
C10_ReturnedTableComplete ==
    /\ pc = "get_ring_status" => \A i \in 1..Len(stack) : CompleteRecord(stack[i])
    /\ evaluated => fault # "KeyError"

====
